---- MODULE Spec2Model ----
(***************************************************************************)
(* LLM-Py-Phy-MCP: the process execution engine of the MCP server, in its  *)
(* three variants (src/server.py, src/linux/server.py,                     *)
(* src/windows/server.py).                                                 *)
(*                                                                         *)
(* Text is a sequence of tokens: a token is a fragment without a line      *)
(* break, or the line break NL itself; string concatenation is \o.         *)
(* An optional value (Python's None) is the empty sequence, a present      *)
(* value x is <<x>>.                                                       *)
(***************************************************************************)
EXTENDS Integers, Sequences, FiniteSets, TLC

VARIABLES
    variant,    \* which server file is running: "base", "linux", "windows"
    fs,         \* the temp-artifact paths: path -> NoFile or the file's content
    inv,        \* per invocation of call_tool: position, arguments, result, return
    child,      \* per invocation: the child process it spawned
    startup,    \* the import of the server module: host, resolved interpreter
    pipes       \* per invocation: the stdout and stderr pipes of its child

vars == <<variant, fs, inv, child, startup, pipes>>

\* ------------------------------------------------------------------ bounds

\* Number of call_tool invocations that can be in flight at once.
NumInv == 2

Invocations == 1..NumInv

\* Number of packages pip lists at most.
MaxPkgs == 3

\* Number of chunks a pipe holds before a write to it blocks.
PipeCap == 2

\* ---------------------------------------------------------------- constants

DefaultExecTimeout == 30
DefaultScriptTimeout == 60
EvalTimeout == 10
InstallTimeout == 300
\* os.getpid() of the host process: one value for the whole life of the server.
HostPid == 4242

Variants == {"base", "linux", "windows"}

ToolNames == {"python_execute", "python_install", "python_run_script",
              "python_eval", "python_list_packages"}

None == <<>>
Some(x) == <<x>>

NL == "\n"

\* A carriage return
CR == "\r"

\* tempfile.gettempdir() in the windows variant, the literal "/tmp" elsewhere.
TEMP_DIR == "/tmp"

\* The interpreter every child is run with: the module global assigned at
\* import time.
VENV_PYTHON == startup.venv_python[1]

\* ------------------------------------------------------------- environment

\* Directories that exist on the host.
ExistingDirs == {"/tmp", "/work"}

\* Regular files that exist on the host besides the temp artifacts.
ScriptFiles == {"/work/a.py"}

\* os.path.isfile with the test left out
IsFile_AlwaysTrue(p) == TRUE

\* os.path.isfile
IsFile(p) == p \in ScriptFiles

\* os.path.dirname for the script paths of the model
DirName(p) == IF p \in {"/work/a.py", "/work/missing.py"} THEN "/work" ELSE ""

\* A payload that the text encoding of write_text cannot encode (a lone
\* surrogate such as "\ud800").
BadCode == "x = '\\ud800'"

Encodable(s) == s # BadCode

\* A payload whose first statement must be the first statement of its file
FutureCode == "from __future__ import annotations"

\* A byte of child output that is not valid UTF-8.
BadByte == "\\xff"
\* What decode(errors='replace') puts in its place.
ReplacementChar == "U+FFFD"

NoFile == [kind |-> "nofile"]
EmptyFile == [kind |-> "file", preamble |-> FALSE, payload |-> ""]

\* Path(working_dir) / f"mcp_exec_{os.getpid()}.py"
ExecPath(wd) == [dir |-> wd, name |-> "mcp_exec_" \o ToString(HostPid) \o ".py"]

\* Path(TEMP_DIR) / f"mcp_eval_{os.getpid()}.py"
EvalPath == [dir |-> TEMP_DIR, name |-> "mcp_eval_" \o ToString(HostPid) \o ".py"]

ArtifactPaths == {ExecPath(d) : d \in ExistingDirs} \cup {EvalPath}

\* str(path)
PathStr(p) == p.dir \o "/" \o p.name

\* dict.get with the caller's value ignored
Get_IgnoreCaller(d, k, default) == default

\* dict.get(key, default)
Get(d, k, default) == IF k \in DOMAIN d THEN d[k] ELSE default

\* ------------------------------------------------------------------- text

\* t occurs in s as a contiguous run of tokens
Contains(s, t) ==
    \E k \in 0..(Len(s) - Len(t)) : SubSeq(s, k + 1, k + Len(t)) = t

StartsWith(s, t) == Len(s) >= Len(t) /\ SubSeq(s, 1, Len(t)) = t

\* bytes.decode('utf-8', errors='replace')
DecodeReplace(bytes) ==
    [k \in 1..Len(bytes) |-> IF bytes[k] = BadByte THEN ReplacementChar ELSE bytes[k]]

\* strict decoding (text=True): fails on a byte that is not valid UTF-8
Decodable(bytes) == \A k \in 1..Len(bytes) : bytes[k] # BadByte

\* str.strip(): leading and trailing white space removed
IsSpace(tok) == tok \in {NL, CR, " "}

RECURSIVE LStrip(_)
LStrip(s) == IF s # <<>> /\ IsSpace(Head(s)) THEN LStrip(Tail(s)) ELSE s

RECURSIVE RStrip(_)
RStrip(s) ==
    IF s # <<>> /\ IsSpace(s[Len(s)]) THEN RStrip(SubSeq(s, 1, Len(s) - 1)) ELSE s

Strip(s) == RStrip(LStrip(s))

\* str.split('\n'): the list of lines, each a text; ''.split('\n') is ['']
RECURSIVE SplitLines(_)
SplitLines(s) ==
    IF \A k \in 1..Len(s) : s[k] # NL
    THEN <<s>>
    ELSE LET k == CHOOSE j \in 1..Len(s) :
                      s[j] = NL /\ \A m \in 1..(j - 1) : s[m] # NL
         IN  <<SubSeq(s, 1, k - 1)>> \o SplitLines(SubSeq(s, k + 1, Len(s)))

\* sep.join(texts)
RECURSIVE Join(_, _)
Join(sep, texts) ==
    IF texts = <<>> THEN <<>>
    ELSE IF Len(texts) = 1 THEN texts[1]
    ELSE texts[1] \o sep \o Join(sep, Tail(texts))

\* str.split(): the white-space separated words of a text
SplitWords(s) == SelectSeq(s, LAMBDA tok : ~IsSpace(tok))

\* ' '.join(words)
JoinWords(words) == Join(<<" ">>, [k \in 1..Len(words) |-> <<words[k]>>])

\* str.replace(old, ''), old a token
RemoveToken(s, old) == SelectSeq(s, LAMBDA tok : tok # old)

\* ------------------------------------------------------------- exceptions

Exc(type, msg) == [type |-> type, msg |-> msg]

KeyError(key) == Exc("KeyError", <<"'" \o key \o "'">>)

FileNotFoundError(path) ==
    Exc("FileNotFoundError", <<"[Errno 2] No such file or directory: ", path>>)

UnicodeEncodeError ==
    Exc("UnicodeEncodeError", <<"'utf-8' codec can't encode character: surrogates not allowed">>)

UnicodeDecodeError ==
    Exc("UnicodeDecodeError", <<"'utf-8' codec can't decode byte 0xff: invalid start byte">>)

\* raised by asyncio's Process.kill() when the child is gone; str(e) is ''
ProcessLookupError == Exc("ProcessLookupError", <<>>)

JSONDecodeError == Exc("json.decoder.JSONDecodeError", <<"Expecting value">>)

\* subprocess.TimeoutExpired.__str__
TimeoutExpired(cmd, timeout) ==
    Exc("subprocess.TimeoutExpired",
        <<"Command ">> \o cmd \o <<" timed out after ", ToString(timeout), " seconds">>)

\* str(e)
StrExc(e) == e.msg

\* traceback.format_exc() while e is being handled
FormatExc(e) ==
    <<"Traceback (most recent call last):", NL, "  File ..., line ..., in ...", NL>>
    \o (IF StrExc(e) = <<>> THEN <<e.type>> ELSE <<e.type \o ": ">> \o StrExc(e))
    \o <<NL>>

\* ---------------------------------------------------------------- returns

\* [TextContent(type="text", text=t)]
TextContent(t) == <<[type |-> "text", text |-> t]>>

Return(t) == [kind |-> "return", content |-> TextContent(t)]
Raise(e) == [kind |-> "raise", exc |-> e]
NoReturn == [kind |-> "none"]

\* call_tool without its except clause: the handler's exception goes on
CallToolCatch_Propagate(name, r) == r

\* call_tool's except clause: any Exception of a handler becomes a report
CallToolCatch(name, r) ==
    IF r.kind = "raise"
    THEN Return(<<"Error executing ", name, ":", NL>> \o FormatExc(r.exc))
    ELSE r

UnknownTool(name) == Return(<<"Unknown tool: ", name>>)

\* --------------------------------------------------------------- reports
\* The check mark and the cross of the source are written <check> and <cross>.

\* The stdout/stderr sections shared by python_execute and python_run_script
Sections(out, err) ==
       (IF out # <<>> THEN <<"=== STDOUT ===", NL>> \o out \o <<NL>> ELSE <<>>)
    \o (IF err # <<>> THEN <<"=== STDERR ===", NL>> \o err \o <<NL>> ELSE <<>>)

\* The trailing one-line marker of python_execute
ExecMarker(rc) ==
    IF rc = 0
    THEN <<NL, "<check> Execution completed successfully">>
    ELSE <<NL, "<cross> Execution failed with exit code ", ToString(rc)>>

\* The trailing one-line marker of python_run_script
ScriptMarker(rc) ==
    IF rc = 0
    THEN <<NL, "<check> Script completed successfully">>
    ELSE <<NL, "<cross> Script failed with exit code ", ToString(rc)>>

\* execute_python: the report of a completed run
ExecuteReport(rc, out, err) ==
       <<"=== Execution Result ===", NL, "Exit Code: ", ToString(rc), NL, NL>>
    \o Sections(out, err)
    \o ExecMarker(rc)

\* repr of a list of strings, as f"{script_args}" prints it
ListRepr(words) ==
       <<"[">>
    \o Join(<<", ">>, [k \in 1..Len(words) |-> <<"'" \o words[k] \o "'">>])
    \o <<"]">>

\* run_script: the report of a completed run
ScriptReport(script_path, script_args, rc, out, err) ==
       <<"=== Script Execution ===", NL, "Script: ", script_path, NL, "Args: ">>
    \o ListRepr(script_args)
    \o <<NL, "Exit Code: ", ToString(rc), NL, NL>>
    \o Sections(out, err)
    \o ScriptMarker(rc)

\* run_script with the caller's args left out
ScriptCmd_DropArgs(script_path, script_args) == <<VENV_PYTHON, script_path>>

\* run_script: the command line
ScriptCmd(script_path, script_args) == <<VENV_PYTHON, script_path>> \o script_args

\* install_packages with the flag appended whatever upgrade is
InstallCmd_AlwaysUpgrade(packages, upgrade) ==
    <<VENV_PYTHON, "-m", "pip", "install", "--upgrade">> \o SplitWords(Strip(packages))

\* install_packages: the command line
InstallCmd(packages, upgrade) ==
       <<VENV_PYTHON, "-m", "pip", "install">>
    \o (IF upgrade THEN <<"--upgrade">> ELSE <<>>)
    \o SplitWords(Strip(packages))

\* install_packages: the report of a completed run
InstallReport(cmd, rc, out, err) ==
       <<"=== Package Installation ===", NL, "Command: ">> \o JoinWords(cmd) \o <<NL, NL>>
    \o out
    \o (IF err # <<>> THEN <<NL, "=== STDERR ===", NL>> \o err ELSE <<>>)
    \o (IF rc = 0
        THEN <<NL, NL, "<check> Installation completed successfully">>
        ELSE <<NL, NL, "<cross> Installation failed with exit code ", ToString(rc)>>)

\* eval_expression: the script written for an expression
EvalCode(expression) ==
    "result = " \o expression \o "\nprint(result)\nprint(f'__TYPE__{type(result).__name__}')"

\* What the interpreter computes for the expressions of the model: the text
\* print(result) writes before its line break, and type(result).__name__
PyEval ==
    [e \in {"2 + 2", "'a' * 3", "''", "' x'", "'a\\nb'"} |->
        CASE e = "2 + 2" -> [printed |-> <<"4">>, type |-> "int"]
          [] e = "'a' * 3" -> [printed |-> <<"aaa">>, type |-> "str"]
          [] e = "''" -> [printed |-> <<>>, type |-> "str"]
          [] e = "' x'" -> [printed |-> <<" ", "x">>, type |-> "str"]
          [] e = "'a\\nb'" -> [printed |-> <<"a", NL, "b">>, type |-> "str"]]

\* The stdout of the script EvalCode writes, for a value that was computed
EvalStdout(v) == v.printed \o <<NL, "__TYPE__", v.type, NL>>

\* eval_expression: the report of a completed run
EvalReport(expression, rc, out, err) ==
    IF rc = 0
    THEN LET lines == SplitLines(Strip(out))
             value == IF Len(lines) > 1
                      THEN Join(<<NL>>, SubSeq(lines, 1, Len(lines) - 1))
                      ELSE lines[1]
             type_info == IF lines # <<>>
                          THEN RemoveToken(lines[Len(lines)], "__TYPE__")
                          ELSE <<"unknown">>
         IN     <<"=== Expression Evaluation ===", NL, "Expression: ", expression, NL,
                  "Result: ">> \o value \o <<NL, "Type: ">> \o type_info
    ELSE <<"Error evaluating expression:", NL, expression, NL, NL, "Error: ">>
         \o err \o <<NL>>

\* eval_expression's own except clause
EvalExceptReport(expression, e) ==
       <<"Error evaluating expression:", NL, expression, NL, NL, "Error: ">>
    \o StrExc(e) \o <<NL>> \o FormatExc(e)

\* ------------------------------------------------ python_list_packages
\* pip's JSON listing is a text "[" obj "," obj ... "]", every obj one token.

\* The objects pip can list: token -> the {name, version} pair it parses to
PkgTable ==
    [tok \in {"{numpy 1.26}", "{Pandas 2.0}", "{attrs 23.1}"} |->
        CASE tok = "{numpy 1.26}" -> [name |-> "numpy", version |-> "1.26"]
          [] tok = "{Pandas 2.0}" -> [name |-> "Pandas", version |-> "2.0"]
          [] tok = "{attrs 23.1}" -> [name |-> "attrs", version |-> "23.1"]]

\* json.loads succeeds on the text
JsonOk(text) ==
    LET t == Strip(text)
        inner == SubSeq(t, 2, Len(t) - 1)
    IN  /\ Len(t) >= 2
        /\ t[1] = "[" /\ t[Len(t)] = "]"
        /\ \/ inner = <<>>
           \/ /\ Len(inner) % 2 = 1
              /\ \A k \in 1..Len(inner) :
                    IF k % 2 = 1 THEN inner[k] \in DOMAIN PkgTable ELSE inner[k] = ","

\* json.loads(text), for a text it succeeds on
JsonLoads(text) ==
    LET t == Strip(text)
        inner == SubSeq(t, 2, Len(t) - 1)
    IN  [j \in 1..((Len(inner) + 1) \div 2) |-> PkgTable[inner[2 * j - 1]]]

\* the sort key without lower()
Lower_Identity(name) == name

\* str.lower() on the package names of the model
Lower(name) == IF name = "Pandas" THEN "pandas" ELSE name

\* The names of the model and their lower-cased forms in ascending str
\* order (by code point: upper case before lower case)
NameOrder == <<"Pandas", "attrs", "numpy", "pandas">>

NameRank(name) == CHOOSE k \in 1..Len(NameOrder) : NameOrder[k] = Lower(name)

\* sorted(packages, key=lambda x: x["name"].lower()): a stable insertion sort
RECURSIVE InsertPkg(_, _)
InsertPkg(pkg, sorted) ==
    IF sorted = <<>> THEN <<pkg>>
    ELSE IF NameRank(pkg.name) < NameRank(Head(sorted).name)
         THEN <<pkg>> \o sorted
         ELSE <<Head(sorted)>> \o InsertPkg(pkg, Tail(sorted))

RECURSIVE SortedPkgs(_)
SortedPkgs(pkgs) ==
    IF pkgs = <<>> THEN <<>>
    ELSE InsertPkg(pkgs[Len(pkgs)], SortedPkgs(SubSeq(pkgs, 1, Len(pkgs) - 1)))

\* f"{pkg['name']:<30} {pkg['version']}\n" for every package of the list
RECURSIVE PkgRows(_)
PkgRows(pkgs) ==
    IF pkgs = <<>> THEN <<>>
    ELSE <<Head(pkgs).name, "<pad to 30>", " ", Head(pkgs).version, NL>> \o PkgRows(Tail(pkgs))

\* list_packages: the report of a completed run whose listing parsed
ListReport(rc, out, err) ==
    IF rc = 0
    THEN LET packages == JsonLoads(out)
         IN     <<"=== Installed Python Packages ===", NL, NL,
                  "Package", "<pad to 30>", " Version", NL,
                  "==================================================", NL>>
             \o PkgRows(SortedPkgs(packages))
             \o <<NL, "Total: ", ToString(Len(packages)), " packages">>
    ELSE <<"Error listing packages:", NL>> \o err

\* ---------------------------------------------------- interpreter resolver

\* sys.executable of the host process
SysExecutable == "/usr/bin/python3"

\* The paths get_venv_python probes, relative to the script directory, in
\* the order of each variant
Candidates(v) ==
    CASE v = "base" -> <<"venv/bin/python", ".venv/bin/python", "env/bin/python">>
      [] v = "linux" -> <<"venv/bin/python", ".venv/bin/python", "venv/Scripts/python.exe">>
      [] v = "windows" ->
            <<"venv/Scripts/python.exe", ".venv/Scripts/python.exe", "venv/bin/python">>

CandidatePaths ==
    {"venv/bin/python", ".venv/bin/python", "env/bin/python",
     "venv/Scripts/python.exe", ".venv/Scripts/python.exe"}

\* The interpreter a host with a virtual environment at venv/ resolves to
DefaultHostPython == "venv/bin/python"

\* What can be at a candidate path
PathKinds == {"absent", "file", "dir"}

\* The hosts the server can be started on: inside a virtual environment or
\* not (sys.prefix != sys.base_prefix), what is at each candidate path, and
\* whether the absolute path of the script directory holds a double quote
Hosts == [in_venv : BOOLEAN, kind : [CandidatePaths -> PathKinds], dir_quoted : BOOLEAN]

\* The hosts that differ in what variant v can see: nothing is at the paths
\* it does not probe, and only src/linux/server.py writes the path of its
\* directory into a script
HostsFor(v) ==
    {h \in Hosts :
        /\ \A p \in CandidatePaths :
              (\A k \in DOMAIN Candidates(v) : Candidates(v)[k] # p) => h.kind[p] = "absent"
        /\ v # "linux" => ~h.dir_quoted}

\* A host outside a virtual environment with the interpreter at
\* venv/bin/python only
DefaultHost ==
    [in_venv |-> FALSE,
     kind |-> [p \in CandidatePaths |-> IF p = DefaultHostPython THEN "file" ELSE "absent"],
     dir_quoted |-> FALSE]

\* The hosts with the interpreter at venv/bin/python that differ in what
\* variant v can see
ServingHosts(v) ==
    {h \in HostsFor(v) : h.in_venv = DefaultHost.in_venv /\ h.kind = DefaultHost.kind}

\* The test of a candidate: Path.exists() in src/server.py, Path.is_file()
\* in the other two
CandidateFound(v, kind) == IF v = "base" THEN kind # "absent" ELSE kind = "file"

\* The fallback prints a warning to stderr in src/server.py and
\* src/linux/server.py, and nothing in src/windows/server.py
FallbackWarns(v) == v # "windows"

\* get_venv_python(): the path returned, the candidates probed on the way,
\* and whether the warning was printed
GetVenvPython(v, h) ==
    LET c == Candidates(v)
        found == {k \in DOMAIN c : CandidateFound(v, h.kind[c[k]])}
    IN  IF h.in_venv
        THEN [path |-> SysExecutable, probed |-> <<>>, warned |-> FALSE]
        ELSE IF found # {}
             THEN LET k == CHOOSE j \in found : \A m \in found : j <= m
                  IN  [path |-> c[k], probed |-> SubSeq(c, 1, k), warned |-> FALSE]
             ELSE [path |-> SysExecutable, probed |-> c, warned |-> FallbackWarns(v)]

\* The module before its import has run, on host h
Fresh(h) ==
    [pc |-> "import", host |-> h, venv_python |-> None, assignments |-> 0,
     calls |-> 0, warnings |-> 0, probed |-> <<>>]

\* One call of get_venv_python() recorded in the startup state
Resolved(v, st) ==
    LET r == GetVenvPython(v, st.host)
    IN  [st EXCEPT !.calls = @ + 1,
                   !.warnings = @ + (IF r.warned THEN 1 ELSE 0),
                   !.probed = r.probed]

\* VENV_PYTHON = get_venv_python()
AfterResolve(v, st) ==
    [Resolved(v, st) EXCEPT !.venv_python = Some(GetVenvPython(v, st.host).path),
                            !.assignments = @ + 1,
                            !.pc = "verify"]

\* VENV_INFO = ...: src/server.py calls verify_venv(), which calls
\* get_venv_python() again; the other two variants reuse VENV_PYTHON
AfterVerify(v, st) ==
    [(IF v = "base" THEN Resolved(v, st) ELSE st) EXCEPT !.pc = "serving"]

\* The module after its import, on host h
Booted(v, h) == AfterVerify(v, AfterResolve(v, Fresh(h)))

\* ------------------------------------------------------------- the state

IdleInv ==
    [pc |-> "idle", name |-> "", arguments |-> <<>>, script_path |-> None,
     timeout |-> None, cmd |-> <<>>, cwd |-> None, result |-> None,
     ret |-> NoReturn, spawns |-> 0, cleanup |-> "none",
     raced |-> FALSE]

NoChild == [state |-> "none"]

\* The two pipes of a child (stdout=PIPE, stderr=PIPE): what the child is
\* still to write (plan), what sits unread in each pipe (out, err), and all
\* it has written to each so far (wrote)
NoPipes ==
    [plan |-> None, out |-> <<>>, err |-> <<>>, wrote |-> [out |-> <<>>, err |-> <<>>]]

Init ==
    /\ variant \in Variants
    /\ fs = [p \in ArtifactPaths |-> NoFile]
    /\ inv = [i \in Invocations |-> IdleInv]
    /\ child = [i \in Invocations |-> NoChild]
    /\ startup \in {Booted(variant, h) : h \in ServingHosts(variant)}
    /\ pipes = [i \in Invocations |-> NoPipes]

\* The host process starts: nothing of the module has run yet
InitResolve ==
    /\ variant \in Variants
    /\ fs = [p \in ArtifactPaths |-> NoFile]
    /\ inv = [i \in Invocations |-> IdleInv]
    /\ child = [i \in Invocations |-> NoChild]
    /\ startup \in {Fresh(h) : h \in HostsFor(variant)}
    /\ pipes = [i \in Invocations |-> NoPipes]

\* VENV_PYTHON = get_venv_python() at import time
ImportResolve ==
    /\ startup.pc = "import"
    /\ startup' = AfterResolve(variant, startup)
    /\ UNCHANGED <<variant, fs, inv, child, pipes>>

\* VENV_INFO is built and the startup lines are printed; the server serves
ImportVerify ==
    /\ startup.pc = "verify"
    /\ startup' = AfterVerify(variant, startup)
    /\ UNCHANGED <<variant, fs, inv, child, pipes>>

\* An invocation is inside its handler: between dispatch and return.
MidHandler(i) == inv[i].pc \in {"spawn", "wait", "reap"}

\* subprocess.run blocks the event-loop thread until the child is done, so a
\* second call_tool cannot start while a handler of the blocking variants is
\* running; the asyncio variant suspends at every await.
LoopFree(i) ==
    variant = "windows" \/ \A j \in Invocations \ {i} : ~MidHandler(j)

\* ------------------------------------------------------- artifact manager

\* The content write_text is asked to write: the linux variant prepends the
\* font preamble to the payload of python_execute.
ExecContent(v, code) == [kind |-> "file", preamble |-> (v = "linux"), payload |-> code]

EvalContent(expression) == [kind |-> "file", preamble |-> FALSE, payload |-> EvalCode(expression)]

\* Path.write_text: open(mode='w') creates or truncates the file, then the
\* text is encoded and written; an encoding error leaves the empty file.
WriteText(f, path, content, encodable) ==
    IF path.dir \notin ExistingDirs
    THEN [fs |-> f, exc |-> Some(FileNotFoundError(PathStr(path)))]
    ELSE IF ~encodable
         THEN [fs |-> [f EXCEPT ![path] = EmptyFile], exc |-> Some(UnicodeEncodeError)]
         ELSE [fs |-> [f EXCEPT ![path] = content], exc |-> None]

\* finally: if script_path.exists(): script_path.unlink()
Unlink(f, script_path) ==
    IF script_path # None /\ f[script_path[1]] # NoFile
    THEN [f EXCEPT ![script_path[1]] = NoFile]
    ELSE f

\* the finally clause with the exists() test left out: unlink() of a path
\* that is gone raises
Finally_NoExistsTest(f, script_path) ==
    IF script_path # None /\ f[script_path[1]] = NoFile
    THEN [fs |-> f, exc |-> Some(FileNotFoundError(PathStr(script_path[1])))]
    ELSE [fs |-> Unlink(f, script_path), exc |-> None]

\* The finally clause of execute_python and eval_expression: the file is
\* removed if it is there, and nothing is raised if it is not
Finally(f, script_path) == [fs |-> Unlink(f, script_path), exc |-> None]

\* What the finally clause found at the artifact path
CleanupOf(f, script_path) ==
    IF script_path = None THEN "none"
    ELSE IF f[script_path[1]] = NoFile THEN "absent" ELSE "unlinked"

\* --------------------------------------------------------- process runner

\* How the child's standard input is bound: subprocess.run is given no
\* stdin argument (the child inherits the server's), create_subprocess_exec
\* is given stdin=DEVNULL.
StdinOf(v) == IF v = "windows" THEN "DEVNULL" ELSE "inherit"

NewChild(v, cmd, cwd, needsLoad) ==
    [state |-> "running", stdin |-> StdinOf(v), cmd |-> cmd, cwd |-> cwd,
     loaded |-> IF needsLoad THEN None ELSE Some([kind |-> "static"]),
     returncode |-> None, out |-> <<>>, err |-> <<>>, killed |-> FALSE,
     preamble |-> "none", payload_ran |-> FALSE]

\* The script text src/linux/server.py writes compiles: the path of the
\* script directory sits in the string literals r"..." of the preamble, and
\* the payload comes after the statements of the preamble
Compiles(h, content) == ~h.dir_quoted /\ content.payload # FutureCode

\* What can become of the font preamble in a child that loaded content:
\* "syntax" when the file does not compile (no statement of it runs);
\* otherwise it runs through ("ok"), or its try block meets an ImportError
\* ("import_error"), an Exception of addfont ("font_error"), another
\* Exception ("exception"), all of them caught, or an exception that is not
\* an Exception, such as SystemExit ("exit"), which no clause catches
PreambleFates(h, content) ==
    IF content.kind = "file" /\ content.preamble
    THEN IF Compiles(h, content)
         THEN {"ok", "import_error", "font_error", "exception", "exit"}
         ELSE {"syntax"}
    ELSE {"none"}

\* The child ends in the preamble, before the first statement of the payload
PreambleFatal(c) == c.preamble \in {"syntax", "exit"}

\* process.kill()
Kill(c) == [c EXCEPT !.state = "killed", !.killed = TRUE]

\* the wait left out: the child is not reaped
Wait_NoReap(c) == c

\* process.wait(): returns once the child has terminated, and reaps it
Wait(c) ==
    [c EXCEPT !.state = "reaped",
              !.returncode = IF c.state = "killed" THEN Some(-9) ELSE c.returncode]

\* What the handler holds after a run that completed: CompletedProcess, or
\* (stdout, stderr) of communicate() with process.returncode.
CompletedResult(c) ==
    [timedOut |-> FALSE, exitCode |-> c.returncode, stdout |-> c.out, stderr |-> c.err]

\* What the handler holds after the deadline fired: TimeoutExpired (with the
\* output captured so far) or asyncio.TimeoutError (with nothing).
TimeoutResult(v, c) ==
    [timedOut |-> TRUE, exitCode |-> None,
     stdout |-> IF v = "windows" THEN <<>> ELSE c.out,
     stderr |-> IF v = "windows" THEN <<>> ELSE c.err]

\* ---------------------------------------------------------- handler tails

\* An exception raised inside a handler: eval_expression has its own except
\* clause, the other handlers let it propagate to call_tool.
HandlerOnException(name, arguments, e) ==
    IF name = "python_eval"
    THEN Return(EvalExceptReport(arguments.expression, e))
    ELSE Raise(e)

\* The handler's code after a run that completed, on decoded output
FormatCompleted(name, arguments, cmd, rc, out, err) ==
    CASE name = "python_execute" -> Return(ExecuteReport(rc, out, err))
      [] name = "python_run_script" ->
            Return(ScriptReport(arguments.script_path, Get(arguments, "args", <<>>),
                                rc, out, err))
      [] name = "python_install" -> Return(InstallReport(cmd, rc, out, err))
      [] name = "python_eval" -> Return(EvalReport(arguments.expression, rc, out, err))
      [] name = "python_list_packages" ->
            IF rc = 0 /\ ~JsonOk(out)
            THEN Raise(JSONDecodeError)
            ELSE Return(ListReport(rc, out, err))

\* text=True without the translation of line ends
UniversalNewlines_Verbatim(s) == s

\* text=True reads the pipes in universal-newlines mode: "\r\n" and a lone
\* "\r" of the child's output become "\n"
RECURSIVE UniversalNewlines(_)
UniversalNewlines(s) ==
    IF s = <<>> THEN <<>>
    ELSE IF Head(s) # CR THEN <<Head(s)>> \o UniversalNewlines(Tail(s))
    ELSE IF Len(s) >= 2 /\ s[2] = NL THEN <<NL>> \o UniversalNewlines(Tail(Tail(s)))
    ELSE <<NL>> \o UniversalNewlines(Tail(s))

\* The blocking variants run the child with text=True: the output is decoded
\* strictly inside subprocess.run, which raises on a byte it cannot decode,
\* and its line ends are translated. The asyncio variant decodes with
\* errors='replace' and translates nothing.
HandlerOnCompleted(v, name, arguments, cmd, rc, out, err) ==
    IF v = "windows"
    THEN FormatCompleted(name, arguments, cmd, rc, DecodeReplace(out), DecodeReplace(err))
    ELSE IF Decodable(out) /\ Decodable(err)
         THEN FormatCompleted(name, arguments, cmd, rc,
                              UniversalNewlines(out), UniversalNewlines(err))
         ELSE HandlerOnException(name, arguments, UnicodeDecodeError)

\* The asyncio variant's except asyncio.TimeoutError clauses
TimeoutNotice(name, arguments, timeout) ==
    CASE name = "python_execute" ->
            <<"Execution timed out after ", ToString(timeout), " seconds">>
      [] name = "python_install" ->
            <<"Package installation timed out after 300 seconds">>
      [] name = "python_run_script" ->
            <<"Script execution timed out after ", ToString(timeout), " seconds">>
      [] name = "python_eval" ->
            <<"Expression evaluation timed out: ", arguments.expression>>

\* The handler's code after the deadline fired and the child was killed
HandlerOnTimeout(v, name, arguments, cmd, timeout) ==
    IF v = "windows"
    THEN Return(TimeoutNotice(name, arguments, timeout))
    ELSE HandlerOnException(name, arguments, TimeoutExpired(cmd, timeout))

\* ------------------------------------------------------------- call_tool

\* call_tool returns without the handler having reached a spawn
ReturnNow(i, name, arguments, r) ==
    inv' = [inv EXCEPT ![i] = [IdleInv EXCEPT !.pc = "returned", !.name = name,
                                              !.arguments = arguments,
                                              !.ret = CallToolCatch(name, r)]]

\* the handler is about to spawn cmd
Begin(i, name, arguments, script_path, timeout, cmd, cwd) ==
    inv' = [inv EXCEPT ![i] = [IdleInv EXCEPT !.pc = "spawn", !.name = name,
                                              !.arguments = arguments,
                                              !.script_path = script_path,
                                              !.timeout = timeout,
                                              !.cmd = cmd, !.cwd = cwd]]

\* a handler that spawns once more after its first child
PcAfterHandler_RetryOnce(spawns, r) == IF spawns = 1 THEN "spawn" ELSE "returned"

\* Where the invocation goes when its handler has ended with r after so many
\* spawns: every path of every handler returns or raises, none loops back
PcAfterHandler(spawns, r) == "returned"

\* the handler ends with r; the finally clause removes the artifact, and
\* call_tool returns
Finish(i, r, result) ==
    LET fin == Finally(fs, inv[i].script_path)
    IN  /\ inv' = [inv EXCEPT ![i].pc = PcAfterHandler(inv[i].spawns, r),
                              ![i].ret = CallToolCatch(inv[i].name,
                                                       IF fin.exc = None THEN r
                                                       ELSE Raise(fin.exc[1])),
                              ![i].result = result,
                              ![i].cleanup = CleanupOf(fs, inv[i].script_path)]
        /\ fs' = fin.fs

CallExecute(i, arguments) ==
    /\ inv[i].pc = "idle" /\ LoopFree(i)
    /\ UNCHANGED <<variant, startup, pipes, child>>
    /\ IF "code" \notin DOMAIN arguments
       THEN /\ ReturnNow(i, "python_execute", arguments, Raise(KeyError("code")))
            /\ UNCHANGED fs
       ELSE LET code == arguments.code
                working_dir == Get(arguments, "working_dir", TEMP_DIR)
                timeout == Get(arguments, "timeout", DefaultExecTimeout)
                script_path == ExecPath(working_dir)
                w == WriteText(fs, script_path, ExecContent(variant, code), Encodable(code))
            IN  /\ fs' = w.fs
                /\ IF w.exc # None
                   THEN ReturnNow(i, "python_execute", arguments, Raise(w.exc[1]))
                   ELSE Begin(i, "python_execute", arguments, Some(script_path),
                              Some(timeout), <<VENV_PYTHON, PathStr(script_path)>>,
                              Some(working_dir))

CallInstall(i, arguments) ==
    /\ inv[i].pc = "idle" /\ LoopFree(i)
    /\ UNCHANGED <<variant, startup, pipes, child, fs>>
    /\ IF "packages" \notin DOMAIN arguments
       THEN ReturnNow(i, "python_install", arguments, Raise(KeyError("packages")))
       ELSE Begin(i, "python_install", arguments, None, Some(InstallTimeout),
                  InstallCmd(arguments.packages, Get(arguments, "upgrade", FALSE)), None)

CallRunScript(i, arguments) ==
    /\ inv[i].pc = "idle" /\ LoopFree(i)
    /\ UNCHANGED <<variant, startup, pipes, child, fs>>
    /\ IF "script_path" \notin DOMAIN arguments
       THEN ReturnNow(i, "python_run_script", arguments, Raise(KeyError("script_path")))
       ELSE LET script_path == arguments.script_path
                script_args == Get(arguments, "args", <<>>)
                working_dir == Get(arguments, "working_dir", DirName(script_path))
                timeout == Get(arguments, "timeout", DefaultScriptTimeout)
            IN  IF ~IsFile(script_path)
                THEN ReturnNow(i, "python_run_script", arguments,
                               Return(<<"Error: Script not found: ", script_path>>))
                ELSE Begin(i, "python_run_script", arguments, None, Some(timeout),
                           ScriptCmd(script_path, script_args), Some(working_dir))

CallEval(i, arguments) ==
    /\ inv[i].pc = "idle" /\ LoopFree(i)
    /\ UNCHANGED <<variant, startup, pipes, child>>
    /\ IF "expression" \notin DOMAIN arguments
       THEN /\ ReturnNow(i, "python_eval", arguments, Raise(KeyError("expression")))
            /\ UNCHANGED fs
       ELSE LET expression == arguments.expression
                script_path == EvalPath
                w == WriteText(fs, script_path, EvalContent(expression), Encodable(expression))
            IN  /\ fs' = w.fs
                /\ IF w.exc # None
                   THEN ReturnNow(i, "python_eval", arguments, Raise(w.exc[1]))
                   ELSE Begin(i, "python_eval", arguments, Some(script_path),
                              Some(EvalTimeout), <<VENV_PYTHON, PathStr(script_path)>>, None)

\* list_packages running pip from a script it writes to the temp directory
CallList_WithArtifact(i) ==
    /\ inv[i].pc = "idle" /\ LoopFree(i)
    /\ UNCHANGED <<variant, startup, pipes, child>>
    /\ fs' = [fs EXCEPT ![EvalPath] = EvalContent("pip list")]
    /\ Begin(i, "python_list_packages", <<>>, Some(EvalPath), None,
             <<VENV_PYTHON, PathStr(EvalPath)>>, None)

CallList(i) ==
    /\ inv[i].pc = "idle" /\ LoopFree(i)
    /\ UNCHANGED <<variant, startup, pipes, child, fs>>
    /\ Begin(i, "python_list_packages", <<>>, None, None,
             <<VENV_PYTHON, "-m", "pip", "list", "--format=json">>, None)

CallUnknown(i, name) ==
    /\ inv[i].pc = "idle" /\ LoopFree(i)
    /\ name \notin ToolNames
    /\ UNCHANGED <<variant, startup, pipes, child, fs>>
    /\ ReturnNow(i, name, <<>>, UnknownTool(name))

\* ------------------------------------------------------ spawn, run, reap

HasArtifact(i) == inv[i].script_path # None

\* Popen / create_subprocess_exec starts the child
Spawn(i) ==
    /\ inv[i].pc = "spawn"
    /\ IF inv[i].cwd = None THEN TRUE ELSE inv[i].cwd[1] \in ExistingDirs
    /\ child' = [child EXCEPT ![i] = NewChild(variant, inv[i].cmd, inv[i].cwd, HasArtifact(i))]
    /\ inv' = [inv EXCEPT ![i].pc = "wait", ![i].spawns = @ + 1]
    /\ UNCHANGED <<variant, startup, pipes, fs>>

\* Popen / create_subprocess_exec raises (the working directory is missing,
\* the interpreter cannot be started): no child exists
SpawnFail(i) ==
    /\ inv[i].pc = "spawn"
    /\ LET e == IF inv[i].cwd # None /\ inv[i].cwd[1] \notin ExistingDirs
                THEN FileNotFoundError(inv[i].cwd[1])
                ELSE FileNotFoundError(VENV_PYTHON)
       IN  Finish(i, HandlerOnException(inv[i].name, inv[i].arguments, e), None)
    /\ UNCHANGED <<variant, startup, pipes, child>>

\* the child's interpreter opens the script it was given
ChildLoad(i) ==
    /\ child[i].state = "running"
    /\ child[i].loaded = None
    /\ \E fate \in PreambleFates(startup.host, fs[inv[i].script_path[1]]) :
          child' = [child EXCEPT ![i].loaded = Some(fs[inv[i].script_path[1]]),
                                 ![i].preamble = fate]
    /\ UNCHANGED <<variant, startup, pipes, fs, inv>>

\* the child exits on its own, having run the script it loaded and written
\* out and err to its pipes; a child that ends in the preamble has run no
\* statement of the payload, and a file that does not compile gives a
\* traceback and a nonzero status
ChildExit(i, rc, out, err) ==
    /\ child[i].state = "running"
    /\ child[i].loaded # None
    /\ child[i].loaded[1] \notin {NoFile, EmptyFile}
    /\ PreambleFatal(child[i]) => rc # 0 /\ out = <<>>
    /\ child[i].preamble = "syntax" => err # <<>>
    /\ child' = [child EXCEPT ![i].state = "exited", ![i].returncode = Some(rc),
                              ![i].out = out, ![i].err = err,
                              ![i].payload_ran = ~PreambleFatal(child[i])]
    /\ UNCHANGED <<variant, startup, pipes, fs, inv>>

\* the interpreter's message when its script cannot be opened (exit status 2)
CantOpenFile == <<"can't open file", NL>>

\* the child exits at once: the script it was given is gone, or is empty
ChildExitEarly(i) ==
    /\ child[i].state = "running"
    /\ child[i].loaded # None
    /\ child[i].loaded[1] \in {NoFile, EmptyFile}
    /\ child' = [child EXCEPT
                    ![i].state = "exited",
                    ![i].returncode = IF child[i].loaded[1] = NoFile
                                      THEN Some(2) ELSE Some(0),
                    ![i].err = IF child[i].loaded[1] = NoFile THEN CantOpenFile ELSE <<>>]
    /\ UNCHANGED <<variant, startup, pipes, fs, inv>>

\* The streams communicate() reads while it waits, stdout alone: the other
\* pipe is read after the first has reached its end
DrainedWhileWaiting_StdoutOnly == {"out"}

\* The streams communicate() reads while it waits for the child: both, as
\* their data arrives (the selector loop of Popen.communicate, the two
\* gathered reader tasks of asyncio's Process.communicate)
DrainedWhileWaiting == {"out", "err"}

\* The chunk the child is about to write, and the stream it goes to
NextWrite(i) == Head(pipes[i].plan[1])

\* The child of invocation i has its program under way
ChildWriting(i) ==
    /\ child[i].state = "running"
    /\ pipes[i].plan # None
    /\ pipes[i].plan[1] # <<>>

\* The child is inside a write to a pipe that has no room
Blocked(i) ==
    IF ChildWriting(i) THEN Len(pipes[i][NextWrite(i).s]) >= PipeCap ELSE FALSE

\* The child's program starts; plan is what it will write, in its order: a
\* child that ends in the preamble writes nothing to stdout, and a file that
\* does not compile gives a traceback
ChildRun(i, plan) ==
    /\ child[i].state = "running"
    /\ child[i].loaded # None
    /\ IF child[i].loaded # None THEN child[i].loaded[1] \notin {NoFile, EmptyFile} ELSE FALSE
    /\ pipes[i].plan = None
    /\ PreambleFatal(child[i]) => \A k \in 1..Len(plan) : plan[k].s = "err"
    /\ child[i].preamble = "syntax" => plan # <<>>
    /\ pipes' = [pipes EXCEPT ![i].plan = Some(plan)]
    /\ UNCHANGED <<variant, startup, fs, inv, child>>

\* the child writes its next chunk into the pipe, which has room for it
ChildWrite(i) ==
    /\ ChildWriting(i)
    /\ ~Blocked(i)
    /\ LET w == NextWrite(i)
       IN  pipes' = [pipes EXCEPT ![i].plan = Some(Tail(pipes[i].plan[1])),
                                  ![i][w.s] = Append(@, w.b),
                                  ![i].wrote[w.s] = Append(@, w.b)]
    /\ UNCHANGED <<variant, startup, fs, inv, child>>

\* communicate() reads a chunk from the pipe of stream s while it waits
Drain(i, s) ==
    /\ inv[i].pc = "wait"
    /\ s \in DrainedWhileWaiting \/ child[i].state = "exited"
    /\ pipes[i][s] # <<>>
    /\ pipes' = [pipes EXCEPT ![i][s] = Tail(@)]
    /\ child' = [child EXCEPT ![i][s] = Append(@, Head(pipes[i][s]))]
    /\ UNCHANGED <<variant, startup, fs, inv>>

\* the child has written all it had to write and exits with status rc
ChildExitPiped(i, rc) ==
    /\ child[i].state = "running"
    /\ pipes[i].plan = Some(<<>>)
    /\ PreambleFatal(child[i]) => rc # 0
    /\ child' = [child EXCEPT ![i].state = "exited", ![i].returncode = Some(rc),
                              ![i].payload_ran = ~PreambleFatal(child[i])]
    /\ UNCHANGED <<variant, startup, fs, inv, pipes>>

\* Both pipes are at their end: nothing unread is left in them
AtEOF(i) == pipes[i].out = <<>> /\ pipes[i].err = <<>>

\* communicate() returns: the child has exited and is reaped, both pipes
\* have been read to their end, the handler formats its report
Complete(i) ==
    /\ inv[i].pc = "wait"
    /\ child[i].state = "exited"
    /\ AtEOF(i)
    /\ LET c == Wait(child[i])
           r == HandlerOnCompleted(variant, inv[i].name, inv[i].arguments, inv[i].cmd,
                                   c.returncode[1], c.out, c.err)
           decoded == variant = "windows" \/ (Decodable(c.out) /\ Decodable(c.err))
       IN  /\ child' = [child EXCEPT ![i] = c]
           /\ Finish(i, r, IF decoded THEN Some(CompletedResult(c)) ELSE None)
    /\ UNCHANGED <<variant, startup, pipes>>

\* the deadline fires while the child is still running, out and err being
\* what the pipes have captured so far
Deadline(i, out, err) ==
    /\ inv[i].pc = "wait"
    /\ child[i].state = "running"
    /\ inv[i].timeout # None
    /\ LET c == Kill([child[i] EXCEPT !.out = out, !.err = err])
       IN  IF variant = "windows"
           THEN \* process.kill(), then await process.wait()
                /\ child' = [child EXCEPT ![i] = c]
                /\ inv' = [inv EXCEPT ![i].pc = "reap",
                                      ![i].result = Some(TimeoutResult(variant, c))]
                /\ UNCHANGED fs
           ELSE \* subprocess.run kills, waits and raises TimeoutExpired
                /\ child' = [child EXCEPT ![i] = Wait(c)]
                /\ Finish(i, HandlerOnTimeout(variant, inv[i].name, inv[i].arguments,
                                              inv[i].cmd, inv[i].timeout[1]),
                          Some(TimeoutResult(variant, c)))
    /\ UNCHANGED <<variant, startup, pipes>>

\* kill() on a child that has exited: Popen.kill() of the blocking variants
\* does nothing, Process.kill() of asyncio raises once the transport of the
\* child is closed
KillOnExited(v) == IF v = "windows" THEN Some(ProcessLookupError) ELSE None

\* the deadline fires at the moment the child exits: the child is gone, but
\* the wait has not returned, and the timeout path is taken
DeadlineLate(i) ==
    /\ inv[i].pc = "wait"
    /\ child[i].state = "exited"
    /\ inv[i].timeout # None
    /\ LET c == Wait(child[i])
           k == KillOnExited(variant)
           r == IF k # None
                THEN HandlerOnException(inv[i].name, inv[i].arguments, k[1])
                ELSE HandlerOnTimeout(variant, inv[i].name, inv[i].arguments,
                                      inv[i].cmd, inv[i].timeout[1])
       IN  /\ child' = [child EXCEPT ![i] = c]
           /\ inv' = [inv EXCEPT ![i].pc = "returned",
                                 ![i].ret = CallToolCatch(inv[i].name, r),
                                 ![i].result = IF k # None THEN None
                                               ELSE Some(TimeoutResult(variant, c)),
                                 ![i].cleanup = CleanupOf(fs, inv[i].script_path),
                                 ![i].raced = TRUE]
           /\ fs' = Finally(fs, inv[i].script_path).fs
    /\ UNCHANGED <<variant, startup, pipes>>

\* process.wait() returns in the asyncio variant's timeout clause
Reap(i) ==
    /\ inv[i].pc = "reap"
    /\ child' = [child EXCEPT ![i] = Wait(child[i])]
    /\ Finish(i, HandlerOnTimeout(variant, inv[i].name, inv[i].arguments,
                                  inv[i].cmd, inv[i].timeout[1]),
              inv[i].result)
    /\ UNCHANGED <<variant, startup, pipes>>

\* the caller has its report; the slot serves the next invocation
Retire(i) ==
    /\ inv[i].pc = "returned"
    /\ inv' = [inv EXCEPT ![i] = IdleInv]
    /\ child' = [child EXCEPT ![i] = NoChild]
    /\ pipes' = [pipes EXCEPT ![i] = NoPipes]
    /\ UNCHANGED <<variant, startup, fs>>

\* ------------------------------------------------------------ the inputs

\* A dict holding the keys of `keys`, with the values of `full`
MkDict(keys, full) == [k \in keys |-> full[k]]

ExecArgs(keysets, codes, dirs, timeouts) ==
    {MkDict(K, [code |-> c, working_dir |-> d, timeout |-> t]) :
        K \in keysets, c \in codes, d \in dirs, t \in timeouts}

InstallArgs(keysets, packages, upgrades) ==
    {MkDict(K, [packages |-> p, upgrade |-> u]) :
        K \in keysets, p \in packages, u \in upgrades}

ScriptArgs(keysets, paths, arglists, dirs, timeouts) ==
    {MkDict(K, [script_path |-> p, args |-> a, working_dir |-> d, timeout |-> t]) :
        K \in keysets, p \in paths, a \in arglists, d \in dirs, t \in timeouts}

EvalArgs(keysets, expressions) ==
    {MkDict(K, [expression |-> e]) : K \in keysets, e \in expressions}

\* What a child can print on stderr to look like the report of a timed-out
\* python_eval of the blocking variants: the text of the TimeoutExpired
\* traceback for the command line of python_eval
ForgedTimeoutText ==
    LET e == TimeoutExpired(<<DefaultHostPython, PathStr(EvalPath)>>, EvalTimeout)
        t == StrExc(e) \o <<NL>> \o FormatExc(e)
    IN  SubSeq(t, 1, Len(t) - 1)

\* What a child can print on stderr to look like the report of a python_eval
\* whose spawn failed: the text of the FileNotFoundError traceback
ForgedSpawnFailText ==
    LET e == FileNotFoundError(DefaultHostPython)
        t == StrExc(e) \o <<NL>> \o FormatExc(e)
    IN  SubSeq(t, 1, Len(t) - 1)

PipListing == <<"[", "{numpy 1.26}", ",", "{Pandas 2.0}", ",", "{attrs 23.1}", "]", NL>>

\* The lists of objects pip can print: no package twice, in any order
PkgSeqs ==
    {seq \in UNION {[1..n -> DOMAIN PkgTable] : n \in 0..MaxPkgs} :
        \A j, k \in DOMAIN seq : j # k => seq[j] # seq[k]}

\* pip list --format=json for a list of objects
JsonText(seq) ==
    <<"[">> \o Join(<<",">>, [k \in DOMAIN seq |-> <<seq[k]>>]) \o <<"]", NL>>

\* One invocation at a time, with the full range of arguments and outputs
Rich ==
    [invs |-> {1},
     execute |-> ExecArgs(SUBSET {"code", "working_dir", "timeout"},
                          {"print(1)", BadCode, FutureCode}, {"/work", "/nodir"}, {5}),
     install |-> InstallArgs(SUBSET {"packages", "upgrade"},
                             {<<" ", "numpy", " ", "pandas">>,
                              <<"pandas", " ", NL, "numpy", " ">>, <<" ">>}, BOOLEAN),
     script |-> ScriptArgs({{}, {"script_path"}, {"script_path", "args", "timeout"},
                            {"script_path", "working_dir"}},
                           {"/work/a.py", "/work/missing.py"}, {<<"-v", "x">>, <<"x", "-v", "x">>},
                           {"/nodir"}, {5}),
     eval |-> EvalArgs(SUBSET {"expression"}, DOMAIN PyEval \cup {BadCode}),
     unknown |-> {"python_bogus"},
     rcs |-> {0, 1},
     outs |-> [n \in ToolNames |->
                 CASE n = "python_eval" ->
                        {<<>>, <<BadByte>>} \cup {EvalStdout(PyEval[e]) : e \in DOMAIN PyEval}
                   [] n = "python_list_packages" ->
                        {PipListing, <<"[", "]">>, <<"not json">>, <<BadByte>>}
                            \cup {JsonText(seq) : seq \in PkgSeqs}
                   [] OTHER -> {<<>>, <<"hello", NL>>, <<"hello", CR, NL>>, <<BadByte>>}],
     errs |-> [n \in ToolNames |->
                 CASE n = "python_eval" ->
                        {<<>>, <<"boom", NL>>, ForgedTimeoutText, ForgedSpawnFailText}
                   [] OTHER -> {<<>>, <<"boom", NL>>}],
     partial_outs |-> {<<>>, <<"hel">>},
     partial_errs |-> {<<>>, <<"warn", NL>>}]

\* Invocations of python_execute and python_eval in flight together, with
\* few arguments and outputs
Conc ==
    [invs |-> Invocations,
     execute |-> ExecArgs({{"code", "working_dir"}},
                          {"print(1)", "print(2)"}, {"/work"}, {5}),
     eval |-> EvalArgs({{"expression"}}, {"2 + 2"}),
     rcs |-> {0},
     outs |-> [n \in ToolNames |-> {<<"1", NL>>}],
     errs |-> [n \in ToolNames |-> {<<>>}],
     partial_outs |-> {<<>>},
     partial_errs |-> {<<>>}]

\* -------------------------------------------------------- specifications

\* The stdout texts that are the printed value of some expression
EvalStdouts == {EvalStdout(PyEval[e]) : e \in DOMAIN PyEval}

\* The outputs a child of invocation i can produce; of the printed values,
\* the child of python_eval prints the one of its own expression
OutsFor(A, i) ==
    IF inv[i].name \notin ToolNames THEN {}
    ELSE IF inv[i].name = "python_eval"
         THEN {o \in A.outs[inv[i].name] :
                  o \in EvalStdouts =>
                      IF Get(inv[i].arguments, "expression", "") \in DOMAIN PyEval
                      THEN o = EvalStdout(PyEval[inv[i].arguments.expression])
                      ELSE FALSE}
         ELSE A.outs[inv[i].name]

ErrsFor(A, i) == IF inv[i].name \in ToolNames THEN A.errs[inv[i].name] ELSE {}

\* call_tool is entered for one of the tools that write a temp artifact
CallsWithArtifact(A, i) ==
    \/ \E a \in A.execute : CallExecute(i, a)
    \/ \E a \in A.eval : CallEval(i, a)

\* call_tool is entered for one of the other tools, or for an unknown name
CallsWithoutArtifact(A, i) ==
    \/ \E a \in A.install : CallInstall(i, a)
    \/ \E a \in A.script : CallRunScript(i, a)
    \/ CallList(i)
    \/ \E n \in A.unknown : CallUnknown(i, n)

\* the steps of a handler after dispatch, and of its child
Run(A, i) ==
    \/ Spawn(i)
    \/ SpawnFail(i)
    \/ ChildLoad(i)
    \/ \E rc \in A.rcs, out \in OutsFor(A, i), err \in ErrsFor(A, i) :
          ChildExit(i, rc, out, err)
    \/ Complete(i)
    \/ \E out \in A.partial_outs, err \in A.partial_errs : Deadline(i, out, err)
    \/ DeadlineLate(i)
    \/ Reap(i)
    \/ Retire(i)

Next ==
    \E i \in Rich.invs :
        CallsWithArtifact(Rich, i) \/ CallsWithoutArtifact(Rich, i) \/ Run(Rich, i)

\* With invocations in flight together a child can find its script replaced,
\* emptied or removed by another invocation.
NextConc ==
    \E i \in Conc.invs :
        CallsWithArtifact(Conc, i) \/ Run(Conc, i) \/ ChildExitEarly(i)

\* One invocation after the other on any host, with few arguments and outputs
Boot ==
    [invs |-> {1},
     execute |-> ExecArgs({{"code"}}, {"print(1)"}, {"/work"}, {5}),
     install |-> InstallArgs({{"packages"}, {"packages", "upgrade"}},
                             {<<"numpy", " ", "pandas">>}, BOOLEAN),
     script |-> ScriptArgs({{"script_path"}}, {"/work/a.py"}, {<<>>}, {"/work"}, {5}),
     eval |-> EvalArgs({{"expression"}}, {"2 + 2"}),
     unknown |-> {"python_bogus"},
     rcs |-> {0},
     outs |-> [n \in ToolNames |->
                 CASE n = "python_eval" -> {EvalStdout(PyEval["2 + 2"])}
                   [] n = "python_list_packages" -> {PipListing}
                   [] OTHER -> {<<"hello", NL>>}],
     errs |-> [n \in ToolNames |-> {<<>>}],
     partial_outs |-> {<<>>},
     partial_errs |-> {<<>>}]

\* The module is imported, then main() serves the tool calls
NextResolve ==
    \/ ImportResolve
    \/ ImportVerify
    \/ /\ startup.pc = "serving"
       /\ \E i \in Boot.invs :
              CallsWithArtifact(Boot, i) \/ CallsWithoutArtifact(Boot, i) \/ Run(Boot, i)

\* What a child writes that fills a pipe beyond its capacity: one chunk
\* more than the pipe holds, all to stream s
Flood(s) == [k \in 1..(PipeCap + 1) |-> [s |-> s, b |-> s \o ToString(k)]]

\* The same number of chunks, going to the two streams in turn
Alternate ==
    [k \in 1..(PipeCap + 1) |->
        [s |-> IF k % 2 = 1 THEN "err" ELSE "out", b |-> "c" \o ToString(k)]]

\* One invocation of python_execute after the other, its child writing
\* through its pipes chunk by chunk
Piped ==
    [invs |-> {1},
     execute |-> ExecArgs({{"code"}, {"code", "timeout"}}, {"print(1)"}, {"/work"}, {5}),
     rcs |-> {0, 1},
     plans |-> {<<>>, Flood("out"), Flood("err"), Flood("out") \o Flood("err"), Alternate}]

\* The handler waits in communicate() for a child that writes to its pipes
NextPipe ==
    \E i \in Piped.invs :
        \/ \E a \in Piped.execute : CallExecute(i, a)
        \/ Spawn(i)
        \/ SpawnFail(i)
        \/ ChildLoad(i)
        \/ \E plan \in Piped.plans : ChildRun(i, plan)
        \/ ChildWrite(i)
        \/ \E s \in {"out", "err"} : Drain(i, s)
        \/ \E rc \in Piped.rcs : ChildExitPiped(i, rc)
        \/ Complete(i)
        \/ Deadline(i, child[i].out, child[i].err)
        \/ DeadlineLate(i)
        \/ Reap(i)
        \/ Retire(i)

\* What the scheduling guarantees to a child and to the communicate() that
\* waits for it: the child goes on with its program whenever it is not
\* held in a write, and the reader takes what is in a pipe it reads
PipeFairness ==
    \A i \in Invocations :
        /\ WF_vars(ChildWrite(i))
        /\ WF_vars(\E s \in {"out", "err"} : Drain(i, s))

\* One invocation at a time
Spec == Init /\ [][Next]_vars

\* Invocations in flight together
SpecConc == Init /\ [][NextConc]_vars

\* One invocation of python_execute at a time, with the pipes of its child
SpecPipe == Init /\ [][NextPipe]_vars /\ PipeFairness

\* The start of the host process on any host, then one invocation at a time
SpecResolve == InitResolve /\ [][NextResolve]_vars

\* communicate() can return: the child of invocation i has exited
CanComplete(i) == inv[i].pc = "wait" /\ child[i].state = "exited" /\ AtEOF(i)

\* communicate() returns and the handler runs to its return
CompleteStep(i) == CanComplete(i) /\ inv'[i].pc = "returned"

\* What the scheduling guarantees to a handler that is under way: the spawn
\* call returns or raises, a timer that is armed fires when its time is up
\* unless the wait ended first, and a wait on a child that has terminated
\* returns. Nothing makes a child exit on its own, and nothing makes a
\* caller call. The weak fairness of Complete(i) is written out, with
\* CanComplete(i) for ENABLED <<Complete(i)>>_vars and CompleteStep(i) for
\* the step (the steps of Next that return from a wait on an exited child
\* are Complete and DeadlineLate).
Fairness ==
    \A i \in Rich.invs :
        /\ WF_vars(Spawn(i) \/ SpawnFail(i))
        /\ ([]<>~CanComplete(i)) \/ ([]<><<CompleteStep(i)>>_vars)
        /\ WF_vars(\E out \in Rich.partial_outs, err \in Rich.partial_errs :
                       Deadline(i, out, err))
        /\ WF_vars(Reap(i))

\* One invocation at a time, under fair scheduling
SpecLive == Spec /\ Fairness

\* ----------------------------------------------------- reading a report

Returned(i) == inv[i].pc = "returned"

\* The text of the report call_tool returned
Report(i) == inv[i].ret.content[1].text

\* The deadline of invocation i fired while its child was running
TimedOut(i) == inv[i].result # None /\ inv[i].result[1].timedOut /\ ~inv[i].raced

\* The child of invocation i ran to its own exit
ExitedByItself(i) ==
    /\ child[i].state = "reaped"
    /\ ~child[i].killed
    /\ ~inv[i].raced

\* The phrases by which a report announces a timeout
TimeoutPhrases ==
    {"Execution timed out after ", "Package installation timed out after 300 seconds",
     "Script execution timed out after ", "Expression evaluation timed out: ",
     " timed out after "}

SaysTimedOut(text) == \E k \in 1..Len(text) : text[k] \in TimeoutPhrases

\* The phrases that introduce an exit code in a report
ExitCodePhrases ==
    {"Exit Code: ", "<cross> Execution failed with exit code ",
     "<cross> Script failed with exit code ",
     "<cross> Installation failed with exit code "}

ShowsExitCode(text) == \E k \in 1..Len(text) : text[k] \in ExitCodePhrases

\* What the exit-code line of a report reads ("" when it has none)
ExitCodeLine(text) ==
    IF \E k \in 1..(Len(text) - 1) : text[k] = "Exit Code: "
    THEN LET k == CHOOSE j \in 1..(Len(text) - 1) :
                      text[j] = "Exit Code: " /\ \A m \in 1..(j - 1) : text[m] # "Exit Code: "
         IN  text[k + 1]
    ELSE ""

\* The report ends with the failure marker for exit code n
EndsWithFailure(text, n) ==
    /\ Len(text) >= 3
    /\ text[Len(text) - 2] = NL
    /\ text[Len(text) - 1] \in {"<cross> Execution failed with exit code ",
                                "<cross> Script failed with exit code "}
    /\ text[Len(text)] = ToString(n)

\* The artifact path an invocation of python_execute or python_eval uses
ArtifactOf(i) ==
    IF inv[i].name = "python_eval"
    THEN EvalPath
    ELSE ExecPath(Get(inv[i].arguments, "working_dir", TEMP_DIR))

\* ----------------------------------------------------------------- claims

\* C1: when the child outruns its deadline, the call returns a timeout report
\* without an exit code, and the child has been killed and reaped by the time
\* the call returns, in every variant and every mode with a deadline.
C1_TimeoutKillsAndReaps ==
    \A i \in Invocations :
        (Returned(i) /\ TimedOut(i)) =>
            /\ inv[i].ret.kind = "return"
            /\ SaysTimedOut(Report(i))
            /\ ~ShowsExitCode(Report(i))
            /\ inv[i].result[1].exitCode = None
            /\ child[i].killed
            /\ child[i].state = "reaped"

C1_Witness ==
    \E i \in Invocations :
        /\ Returned(i) /\ TimedOut(i)
        /\ child[i].out # <<>>
        /\ child[i].state = "reaped"

\* C2: the report of a timed-out run carries the stdout and stderr captured
\* up to the forced termination.
C2_TimeoutReturnsCapturedOutput ==
    \A i \in Invocations :
        (Returned(i) /\ TimedOut(i)) =>
            /\ Contains(Report(i), DecodeReplace(child[i].out))
            /\ Contains(Report(i), DecodeReplace(child[i].err))

\* C3: when a python_execute or python_eval call has returned, no file exists
\* at its artifact path, whatever way the call ended.
C3_ArtifactGoneOnReturn ==
    \A i \in Invocations :
        (Returned(i) /\ inv[i].name \in {"python_execute", "python_eval"}
                     /\ ArtifactOf(i) \in DOMAIN fs) =>
            fs[ArtifactOf(i)] = NoFile

\* C4: two invocations of the same mode that are in flight together never
\* use the same artifact path.
C4_ConcurrentArtifactsDistinct ==
    \A i, j \in Invocations :
        (i # j /\ MidHandler(i) /\ MidHandler(j)
               /\ HasArtifact(i) /\ HasArtifact(j)
               /\ inv[i].name = inv[j].name) =>
            inv[i].script_path # inv[j].script_path

\* C5: call_tool never lets an exception out; whenever it returns, it returns
\* a list of exactly one text content.
C5_AlwaysOneReport ==
    \A i \in Invocations :
        /\ inv[i].ret.kind # "raise"
        /\ Returned(i) =>
              /\ inv[i].ret.kind = "return"
              /\ Len(inv[i].ret.content) = 1
              /\ inv[i].ret.content[1].type = "text"

C5_Witness ==
    \E i \in Invocations :
        /\ Returned(i)
        /\ inv[i].ret.kind = "return"
        /\ StartsWith(Report(i), <<"Error executing ", inv[i].name, ":", NL>>)
        /\ inv[i].spawns = 1

\* C6: the standard input of every child is bound to the null device, never
\* inherited from the server.
C6_StdinIsDevNull ==
    \A i \in Invocations :
        child[i].state # "none" => child[i].stdin = "DEVNULL"

\* C7: when the child exits before the deadline, the handler holds a result
\* with the child's exit code, and the result is not a timeout.
C7_CompletedHasExitCode ==
    \A i \in Invocations :
        (Returned(i) /\ ExitedByItself(i)) =>
            /\ inv[i].result # None
            /\ ~inv[i].result[1].timedOut
            /\ inv[i].result[1].exitCode # None
            /\ inv[i].result[1].exitCode = child[i].returncode

\* C8: python_execute and python_run_script, child exits with n # 0 before
\* the deadline: the exit-code line of the report reads n and the report ends
\* with the failure marker.
C8_NonzeroExitReported ==
    \A i \in Invocations :
        (Returned(i) /\ ExitedByItself(i)
                     /\ inv[i].name \in {"python_execute", "python_run_script"}
                     /\ child[i].returncode[1] # 0) =>
            /\ ExitCodeLine(Report(i)) = ToString(child[i].returncode[1])
            /\ EndsWithFailure(Report(i), child[i].returncode[1])
            /\ ~SaysTimedOut(Report(i))

\* C9: python_run_script with a script_path that is no regular file returns
\* the not-found report at once and spawns no child.
C9_MissingScriptNoSpawn ==
    \A i \in Invocations :
        (inv[i].name = "python_run_script"
            /\ "script_path" \in DOMAIN inv[i].arguments
            /\ inv[i].arguments.script_path \notin ScriptFiles) =>
            /\ Returned(i)
            /\ Report(i) = <<"Error: Script not found: ", inv[i].arguments.script_path>>
            /\ inv[i].spawns = 0
            /\ child[i].state = "none"

C9_Witness ==
    \E i \in Invocations :
        /\ Returned(i)
        /\ inv[i].name = "python_run_script"
        /\ "script_path" \in DOMAIN inv[i].arguments
        /\ inv[i].arguments.script_path = "/work/missing.py"

\* The reports the same request can get for a run that completed
CompletedReports(i) ==
    {CallToolCatch(inv[i].name,
                   HandlerOnCompleted(variant, inv[i].name, inv[i].arguments, inv[i].cmd,
                                      rc, out, err)).content[1].text :
        rc \in Rich.rcs, out \in Rich.outs[inv[i].name], err \in Rich.errs[inv[i].name]}

\* C10: the report of a timed-out run differs from every report the same
\* request can get for a run that completed, with exit code zero or not.
C10_TimeoutReportDistinct ==
    \A i \in Invocations :
        (Returned(i) /\ TimedOut(i)) => Report(i) \notin CompletedReports(i)

\* The report of python_eval that displays value v
EvalDisplays(expression, v) ==
       <<"=== Expression Evaluation ===", NL, "Expression: ", expression, NL, "Result: ">>
    \o v.printed \o <<NL, "Type: ", v.type>>

\* The child of invocation i evaluated the expression and printed its value
EvaluatedOk(i) ==
    /\ Returned(i) /\ ExitedByItself(i)
    /\ inv[i].name = "python_eval"
    /\ "expression" \in DOMAIN inv[i].arguments
    /\ inv[i].arguments.expression \in DOMAIN PyEval
    /\ child[i].returncode = Some(0)
    /\ child[i].out = EvalStdout(PyEval[inv[i].arguments.expression])

\* C11: python_eval of an expression that evaluates to a value with printed
\* form v and type name T returns the report whose Result is exactly v and
\* whose Type is exactly T.
C11_EvalShowsValueAndType ==
    \A i \in Invocations :
        EvaluatedOk(i) =>
            Report(i) = EvalDisplays(inv[i].arguments.expression,
                                     PyEval[inv[i].arguments.expression])

\* C12: the cleanup step is idempotent: run on a path where no file is, it
\* changes nothing and raises nothing, so running it twice leaves what
\* running it once leaves; an invocation whose cleanup finds its artifact
\* gone still returns its handler's report.
C12_CleanupIdempotent ==
    /\ \A p \in ArtifactPaths :
          LET once == Finally(fs, Some(p))
              twice == Finally(once.fs, Some(p))
          IN  /\ once.exc = None /\ twice.exc = None
              /\ once.fs[p] = NoFile
              /\ twice.fs = once.fs
    /\ \A i \in Invocations :
          (Returned(i) /\ inv[i].cleanup = "absent") =>
              /\ inv[i].ret.kind = "return"
              /\ ~Contains(Report(i), StrExc(FileNotFoundError(PathStr(inv[i].script_path[1]))))

C12_Witness ==
    \E i \in Invocations :
        /\ Returned(i) /\ inv[i].cleanup = "absent"
        /\ \E p \in ArtifactPaths : fs[p] # NoFile

\* The handler of invocation i went past its argument handling to its spawn
ReachedSpawn(i) == inv[i].cmd # <<>>

\* C13: without a timeout argument the deadline is 30 s for python_execute,
\* 60 s for python_run_script, 10 s for python_eval and 300 s for
\* python_install; python_list_packages has no deadline and never times
\* out; a timeout argument of python_execute and python_run_script is the
\* deadline.
C13_DeadlinePerMode ==
    \A i \in Invocations :
        ReachedSpawn(i) =>
            LET a == inv[i].arguments
                given == "timeout" \in DOMAIN a
            IN  CASE inv[i].name = "python_execute" ->
                       inv[i].timeout = Some(IF given THEN a.timeout ELSE 30)
                  [] inv[i].name = "python_run_script" ->
                       inv[i].timeout = Some(IF given THEN a.timeout ELSE 60)
                  [] inv[i].name = "python_eval" -> inv[i].timeout = Some(10)
                  [] inv[i].name = "python_install" -> inv[i].timeout = Some(300)
                  [] inv[i].name = "python_list_packages" ->
                       inv[i].timeout = None /\ ~TimedOut(i)

C13_Witness ==
    \E i \in Invocations :
        /\ Returned(i) /\ TimedOut(i)
        /\ inv[i].name = "python_run_script"
        /\ "timeout" \in DOMAIN inv[i].arguments
        /\ inv[i].timeout = Some(inv[i].arguments.timeout)

\* The pip listing the child of invocation i printed, as a list of objects
ListedBy(i) == CHOOSE seq \in PkgSeqs : child[i].out = JsonText(seq)

\* python_list_packages returned for a child that printed a listing
Listed(i) ==
    /\ Returned(i) /\ ExitedByItself(i)
    /\ inv[i].name = "python_list_packages"
    /\ child[i].returncode = Some(0)
    /\ \E seq \in PkgSeqs : child[i].out = JsonText(seq)

\* Row k of the table of a python_list_packages report
ListRow(text, k) == [name |-> text[5 * k + 5], version |-> text[5 * k + 8]]

\* The package names of the model in ascending order of the lower-cased name
ByLowerCasedName == <<"attrs", "numpy", "Pandas">>

PlaceOf(name) == CHOOSE k \in DOMAIN ByLowerCasedName : ByLowerCasedName[k] = name

\* C14: python_list_packages renders every {name, version} pair of the
\* listing exactly once, in ascending order of the lower-cased name, and the
\* total it reports is the number of pairs.
C14_ListSortedComplete ==
    \A i \in Invocations :
        Listed(i) =>
            LET seq == ListedBy(i)
                n == Len(seq)
                text == Report(i)
            IN  /\ Len(text) = 5 * n + 13
                /\ \A k \in 1..n : text[5 * k + 9] = NL
                /\ \A j \in 1..n :
                      Cardinality({k \in 1..n : ListRow(text, k) = PkgTable[seq[j]]}) = 1
                /\ \A k \in 1..(n - 1) :
                      PlaceOf(ListRow(text, k).name) < PlaceOf(ListRow(text, k + 1).name)
                /\ SubSeq(text, Len(text) - 2, Len(text))
                      = <<"Total: ", ToString(n), " packages">>

C14_Witness ==
    \E i \in Invocations :
        /\ Listed(i)
        /\ ListedBy(i) = <<"{numpy 1.26}", "{Pandas 2.0}", "{attrs 23.1}">>

\* t stands in s from position k on
At(s, k, t) == k >= 1 /\ k + Len(t) - 1 <= Len(s) /\ SubSeq(s, k, k + Len(t) - 1) = t

\* The one-line markers that say success
SuccessMarkers ==
    {"<check> Execution completed successfully", "<check> Script completed successfully",
     "<check> Installation completed successfully"}

\* The one-line markers that say failure, each followed by the exit code
FailureMarkers ==
    {"<cross> Execution failed with exit code ", "<cross> Script failed with exit code ",
     "<cross> Installation failed with exit code "}

\* The report ends with a one-line marker, and it says success exactly when
\* rc is zero
EndsWithMarker(text, rc) ==
    /\ Len(text) >= 3
    /\ IF rc = 0
       THEN text[Len(text) - 1] = NL /\ text[Len(text)] \in SuccessMarkers
       ELSE /\ text[Len(text) - 2] = NL
            /\ text[Len(text) - 1] \in FailureMarkers
            /\ text[Len(text)] = ToString(rc)

\* The layout of the report of a completed run: exit-code line, labeled
\* sections for the streams that are not empty, marker
WellFormedReport(text, rc, out, err) ==
    \E a \in 1..Len(text) :
        /\ At(text, a, <<"Exit Code: ", ToString(rc), NL>>)
        /\ (out # <<>>) <=>
               \E b \in (a + 3)..Len(text) : At(text, b, <<"=== STDOUT ===", NL>> \o out \o <<NL>>)
        /\ (err # <<>>) <=>
               \E b \in (a + 3 + Len(out))..Len(text) :
                   At(text, b, <<"=== STDERR ===", NL>> \o err \o <<NL>>)
        /\ ~(\E b, d \in 1..Len(text) :
                 /\ d < b
                 /\ text[b] = "=== STDOUT ===" /\ text[d] = "=== STDERR ===")
        /\ EndsWithMarker(text, rc)

\* C15: in every mode the report of a completed run has an exit-code line,
\* then a labeled STDOUT section exactly when stdout is not empty, then a
\* labeled STDERR section exactly when stderr is not empty, then a one-line
\* marker that says success exactly when the exit code is zero.
C15_CompletedReportLayout ==
    \A i \in Invocations :
        (Returned(i) /\ ExitedByItself(i) /\ inv[i].name \in ToolNames
                     /\ Decodable(child[i].out) /\ Decodable(child[i].err)) =>
            WellFormedReport(Report(i), child[i].returncode[1], child[i].out, child[i].err)

\* The reports of python_execute and python_run_script have the layout.
ExecuteAndScriptLayout ==
    \A i \in Invocations :
        (Returned(i) /\ ExitedByItself(i)
                     /\ inv[i].name \in {"python_execute", "python_run_script"}
                     /\ Decodable(child[i].out) /\ Decodable(child[i].err)) =>
            WellFormedReport(Report(i), child[i].returncode[1], child[i].out, child[i].err)

\* The argument each handler reads with args[...]
RequiredArg ==
    [n \in ToolNames \ {"python_list_packages"} |->
        CASE n = "python_execute" -> "code"
          [] n = "python_install" -> "packages"
          [] n = "python_run_script" -> "script_path"
          [] n = "python_eval" -> "expression"]

\* Invocation i was made without the argument its handler requires
LacksRequired(i) ==
    /\ inv[i].name \in DOMAIN RequiredArg
    /\ RequiredArg[inv[i].name] \notin DOMAIN inv[i].arguments

\* The report of invocation i is call_tool's report of the KeyError for key
ReportsMissing(i, key) ==
    /\ Returned(i)
    /\ inv[i].ret.kind = "return"
    /\ StartsWith(Report(i), <<"Error executing ", inv[i].name, ":", NL>>)
    /\ Contains(Report(i), <<"KeyError: ">> \o StrExc(KeyError(key)))

\* C16: an invocation that lacks its required argument (code, packages,
\* script_path, expression) returns an error report at once; the step that
\* takes it writes no file, and no child is ever spawned for it.
C16_MissingArgumentNoSpawn ==
    [][\A i \in Invocations :
          LacksRequired(i)' =>
              /\ ReportsMissing(i, RequiredArg[inv[i].name])'
              /\ inv'[i].spawns = 0
              /\ child'[i].state = "none"
              /\ inv'[i].script_path = None
              /\ fs' = fs]_vars

C16_Witness ==
    \E i \in Invocations :
        /\ Returned(i) /\ LacksRequired(i)
        /\ inv[i].name = "python_execute"
        /\ "working_dir" \in DOMAIN inv[i].arguments

\* The content invocation i wrote to its artifact
OwnContent(i) ==
    IF inv[i].name = "python_eval"
    THEN EvalContent(inv[i].arguments.expression)
    ELSE ExecContent(variant, inv[i].arguments.code)

\* C17: from the start of an invocation's child to its end no other
\* invocation overwrites or deletes the invocation's artifact: until the
\* child has opened the file it holds what the invocation wrote, and what
\* the child runs is what the invocation wrote.
C17_ArtifactOwnedExclusively ==
    \A i \in Invocations :
        (HasArtifact(i) /\ child[i].state = "running") =>
            IF child[i].loaded = None
            THEN fs[inv[i].script_path[1]] = OwnContent(i)
            ELSE child[i].loaded[1] = OwnContent(i)

\* C18: the artifact an invocation of python_execute or python_eval wrote is
\* not deleted while the invocation's child is running, and when the
\* invocation has returned, on whatever path, its own cleanup has deleted
\* the file, once.
C18_ArtifactDeletedOnceAfterChild ==
    \A i \in Invocations :
        HasArtifact(i) =>
            /\ child[i].state = "running" => fs[inv[i].script_path[1]] # NoFile
            /\ ~Returned(i) => inv[i].cleanup = "none"
            /\ Returned(i) => inv[i].cleanup = "unlinked"

\* write_text of invocation i raised: the handler of python_execute or
\* python_eval had its argument and returned before its try block
WriteFailed(i) ==
    /\ Returned(i)
    /\ inv[i].name \in {"python_execute", "python_eval"}
    /\ ~LacksRequired(i)
    /\ ~ReachedSpawn(i)

\* C19: when creating or writing the artifact of python_execute or
\* python_eval fails, no child is spawned and no file is at the artifact
\* path when the call has returned.
C19_FailedWriteLeavesNothing ==
    \A i \in Invocations :
        WriteFailed(i) =>
            /\ inv[i].spawns = 0
            /\ child[i].state = "none"
            /\ ArtifactOf(i) \in DOMAIN fs => fs[ArtifactOf(i)] = NoFile

\* C20: under fair scheduling every invocation that is under way eventually
\* returns, also when its child never exits on its own.
C20_EveryInvocationReturns ==
    \A i \in Invocations : MidHandler(i) ~> Returned(i)

\* The invocations of the four tools that run their child under a deadline
\* eventually return.
DeadlineToolsReturn ==
    \A i \in Invocations :
        (MidHandler(i) /\ inv[i].name # "python_list_packages") ~> Returned(i)

\* The stdout of a python_eval child ends with the sentinel line, after the
\* lines of the value
HasSentinelLine(out) ==
    /\ Len(out) >= 4
    /\ out[Len(out)] = NL
    /\ out[Len(out) - 2] = "__TYPE__"
    /\ out[Len(out) - 3] = NL

\* The lines that precede the sentinel line, rejoined
BeforeSentinel(out) == SubSeq(out, 1, Len(out) - 4)

\* The displayed value of a python_eval report: what stands between
\* "Result: " and the closing "Type: " line
DisplayedValue(text) == SubSeq(text, 7, Len(text) - 3)

\* C21: python_eval, child exited with zero and its stdout ends with the
\* sentinel line: the Type of the report is that line without the sentinel,
\* the displayed value is exactly the lines before it, rejoined, and the
\* sentinel is no part of the displayed value, also for an empty value and
\* for a value of several lines.
C21_SentinelDecoding ==
    \A i \in Invocations :
        (Returned(i) /\ ExitedByItself(i) /\ inv[i].name = "python_eval"
                     /\ child[i].returncode = Some(0)
                     /\ HasSentinelLine(child[i].out)) =>
            LET out == child[i].out
                text == Report(i)
            IN  /\ Len(text) >= 9
                /\ text[6] = "Result: "
                /\ SubSeq(text, Len(text) - 2, Len(text)) = <<NL, "Type: ", out[Len(out) - 1]>>
                /\ DisplayedValue(text) = BeforeSentinel(out)
                /\ \A k \in DOMAIN DisplayedValue(text) : DisplayedValue(text)[k] # "__TYPE__"

\* The decoding is right for a value that is not empty and does not begin or
\* end with white space, of one line or of several.
SentinelDecodingOfPlainValues ==
    \A i \in Invocations :
        (Returned(i) /\ ExitedByItself(i) /\ inv[i].name = "python_eval"
                     /\ child[i].returncode = Some(0)
                     /\ HasSentinelLine(child[i].out)
                     /\ BeforeSentinel(child[i].out) # <<>>
                     /\ Strip(BeforeSentinel(child[i].out)) = BeforeSentinel(child[i].out)) =>
            /\ DisplayedValue(Report(i)) = BeforeSentinel(child[i].out)
            /\ Report(i)[Len(Report(i))] = child[i].out[Len(child[i].out) - 1]

\* The child of python_eval invocation i exited by itself with a nonzero
\* code, and its output was decoded
EvalChildFailed(i) ==
    /\ Returned(i) /\ ExitedByItself(i)
    /\ inv[i].name = "python_eval"
    /\ child[i].returncode # Some(0)
    /\ Decodable(child[i].out) /\ Decodable(child[i].err)

\* C22: when the child of python_eval exits nonzero, the report contains the
\* child's stderr and the child's exit code.
C22_EvalFailureShowsStderrAndCode ==
    \A i \in Invocations :
        EvalChildFailed(i) =>
            /\ Contains(Report(i), child[i].err)
            /\ \E k \in DOMAIN Report(i) : Report(i)[k] = ToString(child[i].returncode[1])

\* The report of a failed python_eval child does contain the child's stderr.
EvalFailureShowsStderr ==
    \A i \in Invocations :
        EvalChildFailed(i) =>
            Contains(Report(i), <<"Error: ">> \o child[i].err \o <<NL>>)

\* The report of python_eval invocation i was written by the handler's own
\* except clause: the spawn failed, the output could not be decoded, or
\* subprocess.run raised TimeoutExpired
EvalEngineFailed(i) ==
    /\ Returned(i)
    /\ inv[i].name = "python_eval"
    /\ ReachedSpawn(i)
    /\ \/ inv[i].spawns = 0
       \/ ExitedByItself(i) /\ inv[i].result = None
       \/ TimedOut(i) /\ variant # "windows"

\* The reports the same request can get for a child that exited nonzero
EvalChildFailureReports(i) ==
    {FormatCompleted(inv[i].name, inv[i].arguments, inv[i].cmd, rc, out, err).content[1].text :
        rc \in Rich.rcs \ {0},
        out \in {o \in Rich.outs["python_eval"] : Decodable(o)},
        err \in Rich.errs["python_eval"]}

\* C23: the report python_eval gives for an exception raised in the handler
\* differs from every report the same request can get for a child that
\* exited nonzero.
C23_EngineErrorDistinctFromChildError ==
    \A i \in Invocations :
        EvalEngineFailed(i) => Report(i) \notin EvalChildFailureReports(i)

\* call_tool's report of an exception a handler let out
IsInternalErrorReport(i) ==
    StartsWith(Report(i), <<"Error executing ", inv[i].name, ":", NL>>)

\* list_packages' report of a child that exited nonzero
IsListFailureReport(i) == StartsWith(Report(i), <<"Error listing packages:", NL>>)

\* pip exited with zero and printed what json.loads does not accept
ListingMalformed(i) ==
    /\ Returned(i) /\ ExitedByItself(i)
    /\ inv[i].name = "python_list_packages"
    /\ child[i].returncode = Some(0)
    /\ Decodable(child[i].out) /\ Decodable(child[i].err)
    /\ ~JsonOk(child[i].out)

\* C24: python_list_packages, zero exit and a malformed listing: the call
\* returns a report, and the report is neither the child-failure report nor
\* call_tool's generic internal-error report.
C24_MalformedListingDistinctReport ==
    \A i \in Invocations :
        ListingMalformed(i) =>
            /\ inv[i].ret.kind = "return"
            /\ ~IsListFailureReport(i)
            /\ ~IsInternalErrorReport(i)

\* Nothing propagates to the caller for a malformed listing.
MalformedListingReturns ==
    \A i \in Invocations :
        ListingMalformed(i) => inv[i].ret.kind = "return" /\ ~IsListFailureReport(i)

\* The report a completed run of invocation i gets for its child's outcome
NormalReportOf(i) ==
    CallToolCatch(inv[i].name,
                  HandlerOnCompleted(variant, inv[i].name, inv[i].arguments, inv[i].cmd,
                                     child[i].returncode[1], child[i].out, child[i].err))

\* The report a timed-out run of invocation i gets
TimeoutReportOf(i) ==
    CallToolCatch(inv[i].name,
                  HandlerOnTimeout(variant, inv[i].name, inv[i].arguments, inv[i].cmd,
                                   inv[i].timeout[1]))

\* C25: when the child exits at the moment the deadline fires, the kill and
\* wait of the timeout path raise nothing: the invocation returns its normal
\* report or its timeout report, and the child is reaped and was not killed.
C25_KillSafeOnExitedChild ==
    \A i \in Invocations :
        (Returned(i) /\ inv[i].raced) =>
            /\ inv[i].ret \in {NormalReportOf(i), TimeoutReportOf(i)}
            /\ child[i].state = "reaped"
            /\ ~child[i].killed

\* In the blocking variants the kill of the timeout path is safe on a child
\* that has exited.
BlockingKillSafeOnExitedChild ==
    \A i \in Invocations :
        (Returned(i) /\ inv[i].raced /\ variant # "windows") =>
            inv[i].ret = TimeoutReportOf(i)

\* call_tool can be entered for invocation j now
CanStart(j) == ENABLED (\E a \in Conc.execute : CallExecute(j, a))

\* C26: while the child of one invocation is running, call_tool can be
\* entered for a second invocation, in every variant: no handler holds the
\* engine while it waits for its child.
C26_SecondInvocationCanStart ==
    \A i, j \in Invocations :
        (i # j /\ child[i].state = "running" /\ inv[j].pc = "idle") => CanStart(j)

\* In the asyncio variant a second invocation can start while a child runs.
AsyncioSecondInvocationCanStart ==
    \A i, j \in Invocations :
        (variant = "windows" /\ i # j /\ child[i].state = "running" /\ inv[j].pc = "idle")
            => CanStart(j)

\* The candidates of the running variant that are regular files on the host
RegularFiles ==
    {k \in DOMAIN Candidates(variant) : startup.host.kind[Candidates(variant)[k]] = "file"}

\* The first of them, in the order of the variant
FirstRegularFile ==
    Candidates(variant)[CHOOSE k \in RegularFiles : \A m \in RegularFiles : k <= m]

\* get_venv_python has returned and VENV_PYTHON is assigned
HasResolved == startup.venv_python # None

\* C27: get_venv_python returns the path of the running executable, without
\* probing a candidate, when the process is inside an isolated environment;
\* otherwise it returns the first candidate, in the order of the variant,
\* that exists as a regular file.
C27_ResolverPolicy ==
    HasResolved =>
        /\ startup.host.in_venv =>
               startup.venv_python[1] = SysExecutable /\ startup.probed = <<>>
        /\ (~startup.host.in_venv /\ RegularFiles # {}) =>
               startup.venv_python[1] = FirstRegularFile

\* The variants that test their candidates with is_file() follow the policy.
ResolverPolicyOfIsFileVariants == variant # "base" => C27_ResolverPolicy

\* Nothing is at any of the candidate paths of the running variant
NoCandidateExists ==
    \A k \in DOMAIN Candidates(variant) :
        startup.host.kind[Candidates(variant)[k]] = "absent"

\* C28: outside an isolated environment and with no candidate path on the
\* host, get_venv_python returns the path of the running executable and
\* prints a warning on stderr, in every variant.
C28_FallbackWarns ==
    (HasResolved /\ ~startup.host.in_venv /\ NoCandidateExists) =>
        /\ startup.venv_python[1] = SysExecutable
        /\ startup.warnings = startup.calls

\* The fallback of every variant returns the running executable; those of
\* src/server.py and src/linux/server.py warn.
FallbackReturnsExecutable ==
    (HasResolved /\ ~startup.host.in_venv /\ NoCandidateExists) =>
        /\ startup.venv_python[1] = SysExecutable
        /\ variant # "windows" => startup.warnings = startup.calls

\* The executable each child was spawned with is the resolved path
ChildrenUseResolvedPath ==
    \A i \in Invocations :
        child[i].state # "none" => Head(child[i].cmd) = startup.venv_python[1]

\* C29: the interpreter path is resolved exactly once at the start of the
\* host process, is not assigned again, and is the executable of every child
\* of every invocation.
C29_ResolvedOnce ==
    /\ startup.pc = "serving" => startup.calls = 1 /\ startup.assignments = 1
    /\ ChildrenUseResolvedPath

\* The path is assigned once and every child is spawned with it.
AssignedOnceAndUsed ==
    /\ startup.pc = "serving" => startup.assignments = 1
    /\ ChildrenUseResolvedPath

\* The words of a text between its runs of white space, in their order
RECURSIVE WordsOf(_)
WordsOf(s) ==
    IF s = <<>> THEN <<>>
    ELSE IF Head(s) = " " \/ Head(s) = NL THEN WordsOf(Tail(s))
    ELSE <<Head(s)>> \o WordsOf(Tail(s))

\* The caller asked for an upgrade
WantsUpgrade(arguments) == "upgrade" \in DOMAIN arguments /\ arguments.upgrade

\* The command line python_install is to spawn for its arguments
ExpectedInstallCmd(interpreter, arguments) ==
       <<interpreter, "-m", "pip", "install">>
    \o (IF WantsUpgrade(arguments) THEN <<"--upgrade">> ELSE <<>>)
    \o WordsOf(arguments.packages)

\* C30: python_install spawns the interpreter with -m pip install, then
\* --upgrade if and only if upgrade is true, then the words of packages in
\* their order, and no step of it creates a temp artifact.
C30_InstallCommand ==
    [][\A i \in Invocations :
          inv'[i].name = "python_install" =>
              /\ fs' = fs
              /\ inv'[i].script_path = None
              /\ child'[i].state # "none" =>
                     child'[i].cmd =
                         ExpectedInstallCmd(startup.venv_python[1], inv'[i].arguments)]_vars

\* A child of python_install runs for two packages and no upgrade
C30_Witness ==
    \E i \in Invocations :
        /\ inv[i].name = "python_install"
        /\ child[i].state = "running"
        /\ "upgrade" \in DOMAIN inv[i].arguments /\ ~inv[i].arguments.upgrade
        /\ child[i].cmd = <<DefaultHostPython, "-m", "pip", "install", "pandas", "numpy">>

\* The args the caller gave to python_run_script
CallerArgs(arguments) == IF "args" \in DOMAIN arguments THEN arguments.args ELSE <<>>

\* C31: python_run_script spawns the interpreter with the script path and
\* then the caller's args, each as given and in the given order, nothing
\* added, dropped or reordered.
C31_ScriptArgsVerbatim ==
    \A i \in Invocations :
        (inv[i].name = "python_run_script" /\ child[i].state # "none") =>
            /\ Len(child[i].cmd) = 2 + Len(CallerArgs(inv[i].arguments))
            /\ child[i].cmd[1] = startup.venv_python[1]
            /\ child[i].cmd[2] = inv[i].arguments.script_path
            /\ \A k \in 1..Len(CallerArgs(inv[i].arguments)) :
                   child[i].cmd[2 + k] = CallerArgs(inv[i].arguments)[k]

\* A child of python_run_script runs with three args, one of them repeated
C31_Witness ==
    \E i \in Invocations :
        /\ inv[i].name = "python_run_script"
        /\ child[i].state = "running"
        /\ child[i].cmd = <<DefaultHostPython, "/work/a.py", "x", "-v", "x">>

\* The child of invocation i loaded a script that starts with the font
\* preamble and has ended without having been killed
PreambleChildEnded(i) ==
    /\ inv[i].name = "python_execute"
    /\ child[i].state \in {"exited", "reaped"}
    /\ ~child[i].killed
    /\ child[i].loaded # None
    /\ child[i].loaded[1].kind = "file"
    /\ child[i].loaded[1].preamble

\* C32: in the variant that prepends the font preamble, a child that ends on
\* its own has executed the payload: whatever fails in the preamble, the
\* child does not exit before the payload runs.
C32_PreambleNeverBlocksPayload ==
    \A i \in Invocations : PreambleChildEnded(i) => child[i].payload_ran

\* The failures the try block of the preamble catches (the plotting library
\* is missing, a font file is malformed, another Exception) do not keep the
\* payload from running.
CaughtPreambleFailuresRunPayload ==
    \A i \in Invocations :
        (PreambleChildEnded(i)
            /\ child[i].preamble \in {"import_error", "font_error", "exception"})
            => child[i].payload_ran

\* The run of invocation i failed: its deadline fired, its child exited with
\* a nonzero status, or the handler raised
FailedRun(i) ==
    \/ inv[i].result = None
    \/ inv[i].result[1].timedOut
    \/ inv[i].result[1].exitCode # Some(0)

\* C33: no invocation is retried: an invocation spawns at most one child,
\* and once it has spawned, whatever the outcome, it is not about to spawn
\* again: when it is no longer waiting for that child it has returned its
\* one report.
C33_NoRetry ==
    \A i \in Invocations :
        /\ inv[i].spawns <= 1
        /\ inv[i].pc = "spawn" => inv[i].spawns = 0
        /\ (inv[i].spawns = 1 /\ inv[i].pc \notin {"wait", "reap"}) =>
               Returned(i) /\ inv[i].ret.kind = "return"

\* An invocation whose deadline fired has returned after its one spawn
C33_Witness ==
    \E i \in Invocations :
        Returned(i) /\ TimedOut(i) /\ FailedRun(i) /\ inv[i].spawns = 1

\* The child of invocation i ended on its own and its handler has returned
CompletedRun(i) ==
    /\ Returned(i)
    /\ child[i].state = "reaped"
    /\ ~child[i].killed
    /\ ~inv[i].raced

\* All that the child wrote, on either stream, is what was captured
CapturedInFull(i) ==
    /\ child[i].out = pipes[i].wrote.out
    /\ child[i].err = pipes[i].wrote.err
    /\ pipes[i].plan = Some(<<>>)

\* C34: the pipes of the child are read while it runs, also while the
\* deadline is pending: a child held in a write to a full pipe, on either
\* stream, does not stay held forever, and a child that ends on its own has
\* all its output captured.
C34_PipesDrainedWhileRunning ==
    \A i \in Invocations :
        /\ [](CompletedRun(i) => CapturedInFull(i))
        /\ Blocked(i) ~> ~Blocked(i)

\* A run has completed whose child wrote more to stderr than the pipe holds
C34_Witness ==
    \E i \in Invocations :
        /\ CompletedRun(i)
        /\ Len(pipes[i].wrote.err) > PipeCap
        /\ child[i].err = [k \in 1..(PipeCap + 1) |-> Flood("err")[k].b]

\* The tools that work without a temp artifact
ArtifactFreeTools == {"python_run_script", "python_install", "python_list_packages"}

\* The step is one of invocation i, which serves one of those tools
StepOfArtifactFreeTool(i) ==
    /\ inv[i].name \in ArtifactFreeTools \/ inv'[i].name \in ArtifactFreeTools
    /\ inv'[i] # inv[i] \/ child'[i] # child[i]

\* C35: python_run_script, python_install and python_list_packages create,
\* overwrite and delete no file: no step of such an invocation, on any of its
\* paths, changes the files of the working directory and the temp directory.
C35_NoFileEffect ==
    [][\A i \in Invocations : StepOfArtifactFreeTool(i) => fs' = fs]_vars

\* An invocation of python_install has returned after its deadline fired,
\* with a file left in place by an earlier invocation
C35_Witness ==
    \E i \in Invocations :
        /\ Returned(i)
        /\ inv[i].name = "python_install"
        /\ TimedOut(i)
        /\ inv[i].cleanup = "none"
        /\ \E p \in ArtifactPaths : fs[p] # NoFile

\* The child of invocation i ended on its own before the deadline and wrote
\* text on both streams
CompletedWithText(i) ==
    /\ Returned(i)
    /\ ExitedByItself(i)
    /\ Decodable(child[i].out) /\ Decodable(child[i].err)

\* What call_tool of variant v returns for the outcome of the child of i
ReportIn(v, i) ==
    CallToolCatch(inv[i].name,
                  HandlerOnCompleted(v, inv[i].name, inv[i].arguments, inv[i].cmd,
                                     child[i].returncode[1], child[i].out, child[i].err))

\* The temp artifact of invocation i, if it had one, is gone
ArtifactGone(i) == inv[i].script_path # None => fs[inv[i].script_path[1]] = NoFile

\* C36: for each tool and each outcome of a child that ends before the
\* deadline (exit code, stdout text, stderr text), src/server.py and
\* src/windows/server.py return the same report text and leave the same
\* temp-artifact state.
C36_BlockingAndAsyncioAgree ==
    \A i \in Invocations :
        (variant \in {"base", "windows"} /\ CompletedWithText(i)) =>
            /\ inv[i].ret = ReportIn("base", i)
            /\ inv[i].ret = ReportIn("windows", i)
            /\ ArtifactGone(i)

\* The two variants agree on the outcomes that hold no carriage return.
AgreeWithoutCarriageReturn ==
    \A i \in Invocations :
        (variant \in {"base", "windows"} /\ CompletedWithText(i)
            /\ \A k \in 1..Len(child[i].out) : child[i].out[k] # CR) =>
            /\ inv[i].ret = ReportIn("base", i)
            /\ inv[i].ret = ReportIn("windows", i)
            /\ ArtifactGone(i)

====
